---- MODULE Spec2Model ----
(***************************************************************************)
(* Daily Collection Tracker (src/app.py): the loan ledger kept in three    *)
(* worksheets of one spreadsheet (Active_Loans, Completed_Loans,           *)
(* Collections), the cached loaders in front of them, and the two ledger   *)
(* operations add_loan and add_collection.                                 *)
(*                                                                         *)
(* A worksheet holds text: write_sheet stores str() of every cell and      *)
(* read_sheet turns every cell that reads as a number back into a number.  *)
(* A DataFrame is a sequence of rows, a row a record keyed by column name. *)
(* Amounts are whole rupees.  The columns Mobile_Number and End_Date are   *)
(* left out: they are written once by add_loan and read by no operation.   *)
(***************************************************************************)
EXTENDS Integers, Sequences, FiniteSets, TLC

VARIABLES
    sheet,      \* the spreadsheet: worksheet name -> sequence of rows of text
    cache,      \* st.cache_data: worksheet name -> <<>> (miss) or <<DataFrame>>
    clock,      \* datetime.now(): one tick per operation begun
    ses,        \* per session: the position inside a running operation and its locals
    created,    \* history: the identifiers add_loan has returned, in order
    lastOp      \* history: the operation that ended last, with the ledger it started from

vars == <<sheet, cache, clock, ses, created, lastOp>>

-----------------------------------------------------------------------------
(* Bounds of the model *)

MaxOps == 3         \* operations that change the ledger, per behaviour
MaxAmount == 2      \* largest loan total and largest collected amount
MaxRuns == 2        \* operations begun per behaviour when run request by request

(* Program constants *)

LoanIdWidth == 4        \* f"L{...:04d}"
CollectionIdWidth == 5  \* f"C{...:05d}"

-----------------------------------------------------------------------------
(* Inputs *)

Parties == {"Asha"}
Amounts == 1..MaxAmount
Dailies == {1}
Terms == {1}
Modes == {"Cash"}
Sessions == {1, 2}

SheetNames == {"Active_Loans", "Completed_Loans", "Collections"}

NumericCols == {"Total_Amount", "Daily_Amount", "Total_Days", "Collected_Amount",
                "Remaining_Amount", "Amount_Collected", "Days_Count"}

\* every number a cell of the bounded model can hold
NumRange == (0 - MaxAmount)..(2 * MaxAmount)

-----------------------------------------------------------------------------
(* Text conversions *)

\* format(n, "0<w>d"): the decimal digits of n, left-padded with zeros to width w
ZeroPad(n, w) ==
    LET s == ToString(n)
    IN  IF Len(s) >= w THEN s ELSE SubSeq("0000000000", 1, w - Len(s)) \o s

\* datetime.strftime: a text that never reads as a number
Timestamp(now) == "T" \o ToString(now)

\* gspread's numericise in get_all_records: text that reads as a number becomes it
NumText == [n \in NumRange |-> ToString(n)]

Numericise(s) ==
    IF \E n \in NumRange : NumText[n] = s
    THEN CHOOSE n \in NumRange : NumText[n] = s
    ELSE s

\* df.astype(str) on one row
AsStrRow(r) == [c \in DOMAIN r |-> IF c \in NumericCols THEN ToString(r[c]) ELSE r[c]]

AsStr(df) == [i \in 1..Len(df) |-> AsStrRow(df[i])]

ReadRow(r) == [c \in DOMAIN r |-> Numericise(r[c])]

\* read_sheet: the rows under the header, as records
read_sheet(sh, name) == [i \in 1..Len(sh[name]) |-> ReadRow(sh[name][i])]

\* mutant: the worksheet is not cleared before it is written
ws_clear_nothing(sh, name) == sh

\* ws.clear()
ws_clear(sh, name) == [sh EXCEPT ![name] = <<>>]

\* ws.update(header + df.astype(str) rows): the rows are written from the top of the
\* worksheet, whatever it holds below them stays
ws_update(sh, name, df) ==
    [sh EXCEPT ![name] = AsStr(df) \o SubSeq(@, Len(df) + 1, Len(@))]

\* write_sheet: clear, then update
write_sheet(sh, name, df) == ws_update(ws_clear(sh, name), name, df)

-----------------------------------------------------------------------------
(* Cached loaders *)

NoCache == [n \in SheetNames |-> <<>>]

\* load_active_loans / load_completed_loans / load_collections: the value returned
load(c, sh, name) == IF c[name] # <<>> THEN c[name][1] ELSE read_sheet(sh, name)

\* ... and the cache they leave behind
load_fill(c, sh, name) == [c EXCEPT ![name] = <<load(c, sh, name)>>]

load_fill_all(c, sh) == [n \in SheetNames |-> <<load(c, sh, n)>>]

\* clear_cache
clear_cache(c) == NoCache

\* mutant: Collections is written first
SaveOrderCollectionsFirst == <<"Collections", "Active_Loans", "Completed_Loans">>

\* the order in which save_all_data writes the worksheets
SaveOrder == <<"Active_Loans", "Completed_Loans", "Collections">>

\* the three frames of an operation, by worksheet name
Frames(active, completed, collections) ==
    [n \in SheetNames |->
        IF n = "Active_Loans" THEN active
        ELSE IF n = "Completed_Loans" THEN completed ELSE collections]

RECURSIVE write_in_order(_, _, _)
write_in_order(sh, frames, names) ==
    IF names = <<>> THEN sh
    ELSE write_in_order(write_sheet(sh, Head(names), frames[Head(names)]),
                        frames, Tail(names))

\* save_all_data, the worksheets it leaves when no write fails
save_all_data(sh, active, completed, collections) ==
    write_in_order(sh, Frames(active, completed, collections), SaveOrder)

-----------------------------------------------------------------------------
(* add_loan *)

\* mutant: the completed loans are not counted
next_loan_id_active_only(active, completed) ==
    "L" \o ZeroPad(Len(active) + 1, LoanIdWidth)

\* f"L{len(active) + len(completed) + 1:04d}"
next_loan_id(active, completed) ==
    "L" \o ZeroPad(Len(active) + Len(completed) + 1, LoanIdWidth)

\* mutant: collected and remaining are swapped
new_loan_swapped(loan_id, party, total, daily, days, mode, now) ==
    [Loan_ID |-> loan_id,
     Date |-> Timestamp(now),
     Party_Name |-> party,
     Total_Amount |-> total,
     Daily_Amount |-> daily,
     Total_Days |-> days,
     Payment_Mode |-> mode,
     Collected_Amount |-> total,
     Remaining_Amount |-> 0,
     Status |-> "Active"]

new_loan(loan_id, party, total, daily, days, mode, now) ==
    [Loan_ID |-> loan_id,
     Date |-> Timestamp(now),
     Party_Name |-> party,
     Total_Amount |-> total,
     Daily_Amount |-> daily,
     Total_Days |-> days,
     Payment_Mode |-> mode,
     Collected_Amount |-> 0,
     Remaining_Amount |-> total,
     Status |-> "Active"]

\* pd.concat([df, one_row], ignore_index=True)
concat(df, row) == Append(df, row)

add_loan(active, completed, collections, party, total, daily, days, mode, now) ==
    LET loan_id == next_loan_id(active, completed)
    IN  [active |-> concat(active, new_loan(loan_id, party, total, daily, days, mode, now)),
         completed |-> completed,
         collections |-> collections,
         loan_id |-> loan_id]

-----------------------------------------------------------------------------
(* add_collection *)

\* mutant: when no row has the identifier, the first row is taken
match_index_or_first(active, loan_id) ==
    IF \E i \in 1..Len(active) : active[i].Loan_ID = loan_id
    THEN {i \in 1..Len(active) : active[i].Loan_ID = loan_id}
    ELSE {i \in 1..Len(active) : i = 1}

\* active[active["Loan_ID"] == loan_id].index
match_index(active, loan_id) == {i \in 1..Len(active) : active[i].Loan_ID = loan_id}

\* .index[0]
first_index(S) == CHOOSE i \in S : \A j \in S : i <= j

\* mutant: the remaining amount is not lowered
apply_amount_collected_only(row, amount) ==
    [row EXCEPT !.Collected_Amount = @ + amount]

\* Collected_Amount += amount; Remaining_Amount -= amount
apply_amount(row, amount) ==
    [row EXCEPT !.Collected_Amount = @ + amount, !.Remaining_Amount = @ - amount]

\* mutant: < instead of <=
paid_off_strict(row) == row.Remaining_Amount < 0

\* if active.loc[idx, "Remaining_Amount"] <= 0
paid_off(row) == row.Remaining_Amount <= 0

\* completed_loan = row.copy(); completed_loan["Completion_Date"] = now
completed_loan(row, now) ==
    [c \in DOMAIN row \cup {"Completion_Date"} |->
        IF c = "Completion_Date" THEN Timestamp(now) ELSE row[c]]

\* mutant: the row is copied to Completed and not removed from Active
drop_nothing(df, idx) == df

\* active.drop(idx).reset_index(drop=True)
drop(df, idx) == [i \in 1..(Len(df) - 1) |-> IF i < idx THEN df[i] ELSE df[i + 1]]

\* mutant: the count is not raised by one
next_collection_id_from_zero(collections) ==
    "C" \o ZeroPad(Len(collections), CollectionIdWidth)

\* f"C{len(collections) + 1:05d}"
next_collection_id(collections) ==
    "C" \o ZeroPad(Len(collections) + 1, CollectionIdWidth)

new_collection(cid, loan_id, party, amount, days_count, payment_mode, now) ==
    [Collection_ID |-> cid,
     Date |-> Timestamp(now),
     Loan_ID |-> loan_id,
     Party_Name |-> party,
     Amount_Collected |-> amount,
     Days_Count |-> days_count,
     Payment_Mode |-> payment_mode]

\* the lookup .index[0] raises when no Active row has the identifier
add_collection_raises(active, loan_id) == match_index(active, loan_id) = {}

add_collection(active, completed, collections, loan_id, amount, days_count, payment_mode, now) ==
    LET idx == first_index(match_index(active, loan_id))
        party == active[idx].Party_Name
        updated == [active EXCEPT ![idx] = apply_amount(@, amount)]
        done == paid_off(updated[idx])
        cid == next_collection_id(collections)
    IN  [active |-> IF done THEN drop(updated, idx) ELSE updated,
         completed |-> IF done THEN concat(completed, completed_loan(updated[idx], now))
                       ELSE completed,
         collections |-> concat(collections,
                                new_collection(cid, loan_id, party, amount,
                                               days_count, payment_mode, now))]

-----------------------------------------------------------------------------
(* The ledger as the next operation will read it *)

Active == read_sheet(sheet, "Active_Loans")
Completed == read_sheet(sheet, "Completed_Loans")
Collections == read_sheet(sheet, "Collections")

\* the identifiers an apply-collection may be given: issued already or not
LoanIds == {"L" \o ZeroPad(k, LoanIdWidth) : k \in 1..MaxOps}

Idle == [pc |-> "idle", mine |-> {}]

Init ==
    /\ sheet = [n \in SheetNames |-> <<>>]
    /\ cache = NoCache
    /\ clock = 0
    /\ ses = [s \in Sessions |-> Idle]
    /\ created = <<>>
    /\ lastOp = [kind |-> "none"]

-----------------------------------------------------------------------------
(* One session, every operation run to its end without a failing request *)

\* "Give Money": add_loan(party, mobile, total, daily, days, mode)
AddLoan(party, total, daily, days, mode) ==
    /\ clock < MaxOps
    /\ LET r == add_loan(load(cache, sheet, "Active_Loans"),
                         load(cache, sheet, "Completed_Loans"),
                         load(cache, sheet, "Collections"),
                         party, total, daily, days, mode, clock + 1)
       IN  /\ sheet' = save_all_data(sheet, r.active, r.completed, r.collections)
           /\ created' = Append(created, r.loan_id)
           /\ lastOp' = [kind |-> "add_loan", outcome |-> "ok", pre |-> sheet,
                         party |-> party, total |-> total, loan_id |-> r.loan_id]
    /\ cache' = clear_cache(load_fill_all(cache, sheet))
    /\ clock' = clock + 1
    /\ UNCHANGED ses

\* "Collect Payment": add_collection(loan_id, amount, days_count, payment_mode)
AddCollection(loan_id, amount, days_count, payment_mode) ==
    /\ clock < MaxOps
    /\ ~add_collection_raises(load(cache, sheet, "Active_Loans"), loan_id)
    /\ LET r == add_collection(load(cache, sheet, "Active_Loans"),
                               load(cache, sheet, "Completed_Loans"),
                               load(cache, sheet, "Collections"),
                               loan_id, amount, days_count, payment_mode, clock + 1)
       IN  sheet' = save_all_data(sheet, r.active, r.completed, r.collections)
    /\ lastOp' = [kind |-> "add_collection", outcome |-> "ok", pre |-> sheet,
                  loan_id |-> loan_id, amount |-> amount]
    /\ cache' = clear_cache(load_fill_all(cache, sheet))
    /\ clock' = clock + 1
    /\ UNCHANGED <<ses, created>>

\* add_collection on an identifier no Active row has: the lookup raises after the loads
AddCollectionRaises(loan_id, amount, days_count, payment_mode) ==
    /\ add_collection_raises(load(cache, sheet, "Active_Loans"), loan_id)
    /\ cache' = load_fill_all(cache, sheet)
    /\ lastOp' = [kind |-> "add_collection", outcome |-> "error", pre |-> sheet,
                  loan_id |-> loan_id]
    /\ UNCHANGED <<sheet, clock, ses, created>>

\* a page that shows a record set (Dashboard, Active Loans, ...) loads it through the cache
View(name) ==
    /\ cache[name] = <<>>
    /\ cache' = load_fill(cache, sheet, name)
    /\ UNCHANGED <<sheet, clock, ses, created, lastOp>>

\* ttl=60: a cached record set expires
Expire(name) ==
    /\ cache[name] # <<>>
    /\ cache' = [cache EXCEPT ![name] = <<>>]
    /\ UNCHANGED <<sheet, clock, ses, created, lastOp>>

Next ==
    \/ \E p \in Parties, t \in Amounts, d \in Dailies, n \in Terms, m \in Modes :
            AddLoan(p, t, d, n, m)
    \/ \E id \in LoanIds, a \in Amounts, n \in Terms, m \in Modes :
            AddCollection(id, a, n, m)
    \/ \E id \in LoanIds, a \in Amounts, n \in Terms, m \in Modes :
            AddCollectionRaises(id, a, n, m)
    \/ \E n \in SheetNames : View(n)
    \/ \E n \in SheetNames : Expire(n)

Spec == Init /\ [][Next]_vars

-----------------------------------------------------------------------------
(* The same operations request by request: every load, ws.clear and        *)
(* ws.update is a step of its own, so that sessions interleave and a       *)
(* request can fail between two others.                                    *)

\* the order in which an operation loads the record sets
LoadOrder == <<"Active_Loans", "Completed_Loans", "Collections">>

NoFrames == [n \in SheetNames |-> <<>>]

LoanOp(party, total, daily, days, mode) ==
    [kind |-> "add_loan", party |-> party, total |-> total, daily |-> daily,
     days |-> days, mode |-> mode]

CollectionOp(loan_id, amount, days_count, payment_mode) ==
    [kind |-> "add_collection", loan_id |-> loan_id, amount |-> amount,
     days_count |-> days_count, payment_mode |-> payment_mode]

\* the operations of the other sessions that have begun and written nothing yet
NotYetWritten(t) ==
    {ses[s].now : s \in {x \in Sessions \ {t} :
                            \/ ses[x].pc \in {"load", "compute"}
                            \/ ses[x].pc = "clear" /\ ses[x].k = 1}}

\* the operations of the other sessions whose save has written all it writes
AllWritten(t) ==
    {ses[s].now : s \in {x \in Sessions \ {t} :
                            \/ ses[x].pc = "clear_cache"
                            \/ ses[x].pc = "idle" /\ "now" \in DOMAIN ses[x]}}

\* another session's stored content of worksheet n is gone once s writes n
Overwrite(s, n, own) ==
    [t \in Sessions |->
        IF t = s THEN own
        ELSE IF "mine" \in DOMAIN ses[t] THEN [ses[t] EXCEPT !.mine = @ \ {n}]
        ELSE ses[t]]

\* the button handler calls add_loan or add_collection
Begin(s, op) ==
    /\ ses[s].pc = "idle"
    /\ clock < MaxRuns
    /\ clock' = clock + 1
    /\ ses' = [ses EXCEPT ![s] = [pc |-> "load", k |-> 1, op |-> op, now |-> clock + 1,
                                  pre |-> sheet, ld |-> NoFrames, mine |-> {}]]
    /\ UNCHANGED <<sheet, cache, created, lastOp>>

\* active = load_active_loans(); completed = load_completed_loans(); ...
Load(s) ==
    /\ ses[s].pc = "load"
    /\ LET n == LoadOrder[ses[s].k]
       IN  /\ cache' = load_fill(cache, sheet, n)
           /\ ses' = [ses EXCEPT ![s].ld[n] = load(cache, sheet, n),
                                 ![s].k = IF @ < Len(LoadOrder) THEN @ + 1 ELSE 1,
                                 ![s].pc = IF ses[s].k < Len(LoadOrder)
                                           THEN "load" ELSE "compute"]
    /\ UNCHANGED <<sheet, clock, created, lastOp>>

\* add_loan from the loads to the call of save_all_data
ComputeLoan(s) ==
    /\ ses[s].pc = "compute"
    /\ ses[s].op.kind = "add_loan"
    /\ LET op == ses[s].op
           r == add_loan(ses[s].ld["Active_Loans"], ses[s].ld["Completed_Loans"],
                         ses[s].ld["Collections"],
                         op.party, op.total, op.daily, op.days, op.mode, ses[s].now)
       IN  ses' = [ses EXCEPT ![s] =
                [pc |-> "clear", k |-> 1, op |-> op, now |-> ses[s].now,
                 pre |-> ses[s].pre,
                 post |-> Frames(r.active, r.completed, r.collections),
                 loan_id |-> r.loan_id, mine |-> {},
                 unread |-> NotYetWritten(s), asof |-> clock, after |-> {}]]
    /\ UNCHANGED <<sheet, cache, clock, created, lastOp>>

\* add_collection from the loads to the call of save_all_data
ComputeCollection(s) ==
    /\ ses[s].pc = "compute"
    /\ ses[s].op.kind = "add_collection"
    /\ ~add_collection_raises(ses[s].ld["Active_Loans"], ses[s].op.loan_id)
    /\ LET op == ses[s].op
           r == add_collection(ses[s].ld["Active_Loans"], ses[s].ld["Completed_Loans"],
                               ses[s].ld["Collections"],
                               op.loan_id, op.amount, op.days_count, op.payment_mode,
                               ses[s].now)
       IN  ses' = [ses EXCEPT ![s] =
                [pc |-> "clear", k |-> 1, op |-> op, now |-> ses[s].now,
                 pre |-> ses[s].pre,
                 post |-> Frames(r.active, r.completed, r.collections),
                 loan_id |-> op.loan_id, mine |-> {},
                 unread |-> NotYetWritten(s), asof |-> clock, after |-> {}]]
    /\ UNCHANGED <<sheet, cache, clock, created, lastOp>>

\* add_collection: no Active row has the identifier, the lookup raises
RaiseNotFound(s) ==
    /\ ses[s].pc = "compute"
    /\ ses[s].op.kind = "add_collection"
    /\ add_collection_raises(ses[s].ld["Active_Loans"], ses[s].op.loan_id)
    /\ ses' = [ses EXCEPT ![s] = Idle]
    /\ lastOp' = [kind |-> "add_collection", outcome |-> "error", pre |-> ses[s].pre,
                  loan_id |-> ses[s].op.loan_id]
    /\ UNCHANGED <<sheet, cache, clock, created>>

\* write_sheet, first request: ws.clear()
Clear(s) ==
    /\ ses[s].pc = "clear"
    /\ LET n == SaveOrder[ses[s].k]
       IN  /\ sheet' = ws_clear(sheet, n)
           /\ ses' = Overwrite(s, n,
                        [ses[s] EXCEPT !.pc = "update",
                                       !.after = IF ses[s].k = 1 THEN AllWritten(s) ELSE @])
    /\ UNCHANGED <<cache, clock, created, lastOp>>

\* write_sheet, second request: ws.update(...)
Update(s) ==
    /\ ses[s].pc = "update"
    /\ LET n == SaveOrder[ses[s].k]
       IN  /\ sheet' = ws_update(sheet, n, ses[s].post[n])
           /\ ses' = Overwrite(s, n,
                        [ses[s] EXCEPT !.mine = @ \cup {n},
                                       !.k = IF @ < Len(SaveOrder) THEN @ + 1 ELSE @,
                                       !.pc = IF ses[s].k < Len(SaveOrder)
                                              THEN "clear" ELSE "clear_cache"])
    /\ UNCHANGED <<cache, clock, created, lastOp>>

\* save_all_data ends with clear_cache(); the operation returns
Finish(s) ==
    /\ ses[s].pc = "clear_cache"
    /\ cache' = clear_cache(cache)
    /\ ses' = [ses EXCEPT ![s] = [pc |-> "idle", op |-> ses[s].op, now |-> ses[s].now,
                                  post |-> ses[s].post, mine |-> ses[s].mine,
                                  unread |-> ses[s].unread, asof |-> ses[s].asof,
                                  after |-> ses[s].after]]
    /\ created' = IF ses[s].op.kind = "add_loan"
                  THEN Append(created, ses[s].loan_id) ELSE created
    /\ lastOp' = IF ses[s].op.kind = "add_loan"
                 THEN [kind |-> "add_loan", outcome |-> "ok", pre |-> ses[s].pre,
                       party |-> ses[s].op.party, total |-> ses[s].op.total,
                       loan_id |-> ses[s].loan_id]
                 ELSE [kind |-> "add_collection", outcome |-> "ok", pre |-> ses[s].pre,
                       loan_id |-> ses[s].op.loan_id, amount |-> ses[s].op.amount]
    /\ UNCHANGED <<sheet, clock>>

\* a request to the spreadsheet fails: read_sheet, ws.clear or ws.update raises,
\* nothing catches it, the operation ends where it stands
Fail(s) ==
    /\ \/ ses[s].pc \in {"clear", "update"}
       \/ ses[s].pc = "load" /\ cache[LoadOrder[ses[s].k]] = <<>>
    /\ ses' = [ses EXCEPT ![s] = Idle]
    /\ lastOp' = IF ses[s].pc = "load"
                 THEN [kind |-> ses[s].op.kind, outcome |-> "storage_error",
                       stage |-> "load", pre |-> ses[s].pre]
                 ELSE [kind |-> ses[s].op.kind, outcome |-> "storage_error",
                       stage |-> ses[s].pc, at |-> SaveOrder[ses[s].k],
                       pre |-> ses[s].pre, post |-> ses[s].post,
                       loan_id |-> ses[s].loan_id]
    /\ UNCHANGED <<sheet, cache, clock, created>>

Ops ==
    {LoanOp(p, t, d, n, m) : p \in Parties, t \in Amounts, d \in Dailies,
                             n \in Terms, m \in Modes}
    \cup {CollectionOp(id, a, n, m) : id \in LoanIds, a \in Amounts,
                                      n \in Terms, m \in Modes}

Run(s) ==
    \/ \E op \in Ops : Begin(s, op)
    \/ Load(s)
    \/ ComputeLoan(s)
    \/ ComputeCollection(s)
    \/ RaiseNotFound(s)
    \/ Clear(s)
    \/ Update(s)
    \/ Finish(s)

\* one session, whose requests may fail
NextFail ==
    \/ Run(1)
    \/ Fail(1)
    \/ \E n \in SheetNames : View(n)
    \/ \E n \in SheetNames : Expire(n)

SpecFail == Init /\ [][NextFail]_vars

\* two sessions of one server, no failing request, on a ledger in which one loan
\* was given earlier
GivenEarlier ==
    add_loan(<<>>, <<>>, <<>>, "Asha", MaxAmount, 1, 1, "Cash", 0)

InitRace ==
    /\ sheet = save_all_data([n \in SheetNames |-> <<>>], GivenEarlier.active,
                             GivenEarlier.completed, GivenEarlier.collections)
    /\ cache = NoCache
    /\ clock = 0
    /\ ses = [s \in Sessions |-> Idle]
    /\ created = <<GivenEarlier.loan_id>>
    /\ lastOp = [kind |-> "none"]

\* a session that has not yet returned from an operation starts one
BeginOnce(s, op) ==
    /\ ~(ses[s].pc = "idle" /\ "now" \in DOMAIN ses[s])
    /\ Begin(s, op)

NextRace ==
    \/ \E s \in Sessions, op \in Ops : BeginOnce(s, op)
    \/ \E s \in Sessions : Load(s)
    \/ \E s \in Sessions : ComputeLoan(s)
    \/ \E s \in Sessions : ComputeCollection(s)
    \/ \E s \in Sessions : RaiseNotFound(s)
    \/ \E s \in Sessions : Clear(s)
    \/ \E s \in Sessions : Update(s)
    \/ \E s \in Sessions : Finish(s)

SpecRace == InitRace /\ [][NextRace]_vars

-----------------------------------------------------------------------------
(* Vocabulary of the properties *)

Digit == <<"0", "1", "2", "3", "4", "5", "6", "7", "8", "9">>

\* the w low decimal digits of k, most significant first
RECURSIVE Dec(_, _)
Dec(k, w) == IF w = 0 THEN "" ELSE Dec(k \div 10, w - 1) \o Digit[(k % 10) + 1]

LoanIdOf(k) == "L" \o Dec(k, 4)
CollectionIdOf(k) == "C" \o Dec(k, 5)

AllLoans == Active \o Completed

Ids(df) == {df[i].Loan_ID : i \in 1..Len(df)}

Rows(df, id) == {i \in 1..Len(df) : df[i].Loan_ID = id}

\* the sum of the amounts of the Collection records that reference a loan
RECURSIVE PaidIn(_, _)
PaidIn(log, id) ==
    IF log = <<>> THEN 0
    ELSE (IF Head(log).Loan_ID = id THEN Head(log).Amount_Collected ELSE 0)
         + PaidIn(Tail(log), id)

\* the ledger the last operation started from
PreActive == read_sheet(lastOp.pre, "Active_Loans")
PreCompleted == read_sheet(lastOp.pre, "Completed_Loans")
PreCollections == read_sheet(lastOp.pre, "Collections")

Collected == lastOp.kind = "add_collection" /\ lastOp.outcome = "ok"
Refused == lastOp.kind = "add_collection" /\ lastOp.outcome = "error"
Lent == lastOp.kind = "add_loan" /\ lastOp.outcome = "ok"

-----------------------------------------------------------------------------
LoanIdsSequential ==
    /\ \A k \in 1..Len(created) : created[k] = LoanIdOf(k)
    /\ Ids(AllLoans) = {LoanIdOf(k) : k \in 1..Len(created)}
    /\ Len(AllLoans) = Len(created)
    /\ \A i, j \in 1..Len(AllLoans) :
            AllLoans[i].Loan_ID = AllLoans[j].Loan_ID => i = j

\* a loan created after an earlier one was moved to Completed
LoanCreatedAfterCompletion ==
    /\ Len(created) = 2
    /\ Len(Completed) = 1 /\ Completed[1].Loan_ID = "L0001"
    /\ Len(Active) = 1 /\ Active[1].Loan_ID = "L0002"
    /\ Completed[1].Completion_Date = "T2" /\ Active[1].Date = "T3"

StatusMatchesRecordSet ==
    /\ \A i \in 1..Len(Active) : Active[i].Status = "Active"
    /\ \A i \in 1..Len(Completed) : Completed[i].Status = "Completed"

(* C6: apply-collection on an identifier that no Active loan has ends in   *)
(* an error and leaves the three stored record sets as they were.          *)
UnknownLoanRefused ==
    (lastOp.kind = "add_collection" /\ Rows(PreActive, lastOp.loan_id) = {}) =>
        /\ lastOp.outcome = "error"
        /\ sheet = lastOp.pre

\* a collection refused because its loan was already moved to Completed
CompletedLoanRefused ==
    /\ Refused
    /\ Rows(Completed, lastOp.loan_id) # {}

(* C7: a collection that leaves remaining > 0 keeps the loan in Active,    *)
(* with collected raised and remaining lowered by the amount, and out of   *)
(* Completed; the loan is moved to Completed exactly when the remaining    *)
(* amount after the update is <= 0.                                        *)
StaysActiveUnlessPaidOff ==
    Collected =>
        LET before == PreActive[first_index(Rows(PreActive, lastOp.loan_id))]
            left == before.Remaining_Amount - lastOp.amount
        IN  IF left > 0
            THEN /\ \E i \in Rows(Active, lastOp.loan_id) :
                        /\ Active[i].Collected_Amount
                                = before.Collected_Amount + lastOp.amount
                        /\ Active[i].Remaining_Amount = left
                 /\ Rows(Completed, lastOp.loan_id) = {}
                 /\ Len(Active) = Len(PreActive)
                 /\ Completed = PreCompleted
            ELSE /\ Rows(Active, lastOp.loan_id) = {}
                 /\ Rows(Completed, lastOp.loan_id) # {}
                 /\ Len(Active) = Len(PreActive) - 1
                 /\ Len(Completed) = Len(PreCompleted) + 1

\* a collection that left part of the loan outstanding
PartCollected ==
    /\ Collected
    /\ \E i \in Rows(Active, lastOp.loan_id) :
            Active[i].Remaining_Amount > 0 /\ Active[i].Collected_Amount > 0

(* C8: create-loan appends one loan to Active with collected 0, remaining  *)
(* equal to its total and status Active, returns its identifier, and       *)
(* leaves the other Active loans, Completed and Collections unchanged.     *)
CreateLoanAppendsOne ==
    Lent =>
        /\ Len(Active) = Len(PreActive) + 1
        /\ SubSeq(Active, 1, Len(PreActive)) = PreActive
        /\ LET loan == Active[Len(Active)]
           IN  /\ loan.Collected_Amount = 0
               /\ loan.Total_Amount = lastOp.total
               /\ loan.Remaining_Amount = lastOp.total
               /\ loan.Status = "Active"
               /\ loan.Loan_ID = lastOp.loan_id
        /\ Completed = PreCompleted
        /\ Collections = PreCollections

\* a loan created in a ledger that already holds a loan and a collection
CreatedBesideOthers ==
    /\ Lent
    /\ PreActive # <<>>
    /\ PreCollections # <<>>

(* C10: Collections is append-only: a successful apply-collection adds one *)
(* record at the end, with identifier "C" and the previous count plus one  *)
(* zero-padded to five digits; no operation changes, reorders or removes   *)
(* an earlier record, and the identifiers are pairwise distinct.           *)
CollectionsAppendOnly ==
    /\ Collected =>
            /\ Len(Collections) = Len(PreCollections) + 1
            /\ SubSeq(Collections, 1, Len(PreCollections)) = PreCollections
            /\ Collections[Len(Collections)].Collection_ID
                    = CollectionIdOf(Len(PreCollections) + 1)
            /\ Collections[Len(Collections)].Loan_ID = lastOp.loan_id
            /\ Collections[Len(Collections)].Amount_Collected = lastOp.amount
    /\ (Lent \/ Refused) => Collections = PreCollections
    /\ \A i, j \in 1..Len(Collections) :
            Collections[i].Collection_ID = Collections[j].Collection_ID => i = j

\* a second collection, which moves its loan to Completed
SecondCollectionCompletes ==
    /\ Collected
    /\ PreCollections # <<>>
    /\ Rows(Completed, lastOp.loan_id) # {}

-----------------------------------------------------------------------------
(* Vocabulary of the properties on single requests *)

Text(frames) == [n \in SheetNames |-> AsStr(frames[n])]

Saving(s) == ses[s].pc \in {"clear", "update", "clear_cache"}

\* the last operation ended in a failed write and no save has started since
FailedInSave ==
    /\ lastOp.kind # "none"
    /\ lastOp.outcome = "storage_error"
    /\ lastOp.stage \in {"clear", "update"}
    /\ \A s \in Sessions : ~Saving(s)

\* session s returned from an operation that succeeded
Returned(s) == ses[s].pc = "idle" /\ "now" \in DOMAIN ses[s]

AllOrNothing(pre, post) == sheet = pre \/ sheet = post

\* every stored dataset is as before, empty or as after, and one is touched only
\* when those written before it are as after
OneByOne(pre, post) ==
    /\ \A n \in SheetNames : sheet[n] \in {pre[n], <<>>, post[n]}
    /\ sheet["Completed_Loans"] # pre["Completed_Loans"] =>
            sheet["Active_Loans"] = post["Active_Loans"]
    /\ sheet["Collections"] # pre["Collections"] =>
            /\ sheet["Active_Loans"] = post["Active_Loans"]
            /\ sheet["Completed_Loans"] = post["Completed_Loans"]

(* C5 as claimed: when a write fails part-way through a save, the stored   *)
(* Active_Loans, Completed_Loans and Collections are all as before the     *)
(* operation or all as after it.                                           *)
StoredAllOrNothing ==
    FailedInSave => AllOrNothing(lastOp.pre, Text(lastOp.post))

(* C5 as the code has it: the three datasets are written one after the     *)
(* other, Active_Loans, Completed_Loans, Collections, each cleared and     *)
(* then filled; a save that ends leaves all three as after the operation;  *)
(* during a save and after a failed write each is as before, empty or as   *)
(* after, and one is touched only when those before it are as after.       *)
StoredOneByOne ==
    /\ \A s \in {1} : Saving(s) => OneByOne(ses[s].pre, Text(ses[s].post))
    /\ FailedInSave => OneByOne(lastOp.pre, Text(lastOp.post))
    /\ \A s \in {1} : (Returned(s) \/ ses[s].pc = "clear_cache") =>
            sheet = Text(ses[s].post)

\* a collection paid the loan off, Active_Loans was rewritten without it, and the
\* write of Completed_Loans failed: the loan is in neither stored dataset
LoanInNeitherDataset ==
    /\ FailedInSave
    /\ lastOp.kind = "add_collection"
    /\ lastOp.at = "Completed_Loans"
    /\ Rows(read_sheet(lastOp.pre, "Active_Loans"), lastOp.loan_id) # {}
    /\ Rows(Active, lastOp.loan_id) = {}
    /\ Rows(Completed, lastOp.loan_id) = {}

\* t loaded the ledger before the operation of s wrote, and saved after its writes
ReadBeforeWriteAfter(s, t) ==
    /\ s # t
    /\ Returned(s)
    /\ Returned(t)
    /\ ses[s].now \in ses[t].unread \/ ses[s].now > ses[t].asof
    /\ ses[s].now \in ses[t].after

\* some stored row was made by the operation begun at that tick
Stored(stamp) ==
    \E n \in SheetNames : \E i \in 1..Len(sheet[n]) : sheet[n][i].Date = Timestamp(stamp)

(* C9: nothing protects against a concurrent writer: when a session read   *)
(* the ledger before another session's operation wrote and saved after     *)
(* that operation's writes, both operations succeed and the stored ledger  *)
(* holds nothing of the earlier operation: no loan and no Collection       *)
(* record made by it.                                                      *)
StaleWriteLosesUpdate ==
    \A s, t \in Sessions : ReadBeforeWriteAfter(s, t) => ~Stored(ses[s].now)

\* two sessions collected on the same loan; both returned, one collection is stored
LostCollection ==
    \E s, t \in Sessions :
        /\ ReadBeforeWriteAfter(s, t)
        /\ ses[s].op.kind = "add_collection"
        /\ ses[t].op.kind = "add_collection"
        /\ ~Stored(ses[s].now)
        /\ Len(Collections) = 1

====
